---- MODULE Spec2Model ----
(***************************************************************************)
(* A model of the test-python PM extension (main.py).                      *)
(*                                                                         *)
(* One invocation of the program is one run r: it has an argument list, an *)
(* environment, the interpreter's facts and a clock reading, and it prints *)
(* lines to standard output.  A text (an argument, the value of an         *)
(* environment variable) is a sequence of lexical tokens; the empty        *)
(* sequence is the empty string.  A printed line is the sequence of the    *)
(* pieces its f-string concatenates.  Characters outside ASCII are written *)
(* by their code points ("U+2705") and the escape character as "ESC".      *)
(***************************************************************************)
EXTENDS Integers, Sequences, FiniteSets, TLC

VARIABLES
  argv,        \* argv[r]: sys.argv, argv[r][1] being the program's name
  environ,     \* environ[r]: os.environ, a mapping from names to texts
  sys,         \* sys[r]: the interpreter's version, platform and executable
  now,         \* now[r]: the value datetime.now() returns in run r
  out,         \* out[r]: the lines printed so far
  pc,          \* pc[r]: where run r is
  bound,       \* bound[r]: the local names bound in check_command's frame
  exc,         \* exc[r]: the exception propagating out of main, or "None"
  status,      \* status[r]: the exit status, -1 while the process runs
  ran          \* ran[r]: the behaviours entered so far, in order

vars == <<argv, environ, sys, now, out, pc, bound, exc, status, ran>>

\* The runs of a behaviour: one invocation, or two side by side.
AllRuns == {1, 2}
Runs == DOMAIN pc

(***************************************************************************)
(* Bounds of the model.                                                    *)
(***************************************************************************)
MaxLen == 2          \* generated values of PM_CURRENT_PROJECT: up to MaxLen tokens
MaxExtraArgs == 1    \* arguments after the first

(***************************************************************************)
(* Sequences.                                                              *)
(***************************************************************************)
SeqsUpTo(S, n) == UNION {[1..k -> S] : k \in 0..n}

RECURSIVE JoinWith(_, _)
JoinWith(ss, sep) ==
  IF ss = <<>> THEN <<>>
  ELSE IF Len(ss) = 1 THEN Head(ss)
  ELSE Head(ss) \o <<sep>> \o JoinWith(Tail(ss), sep)

(***************************************************************************)
(* class Colors and the four print helpers.                                *)
(***************************************************************************)
RED    == "ESC[0;31m"
GREEN  == "ESC[0;32m"
YELLOW == "ESC[1;33m"
BLUE   == "ESC[0;34m"
NC     == "ESC[0m"

print(message)         == message
print_info(message)    == <<BLUE, "U+2139 U+FE0F  ">> \o message \o <<NC>>
print_success(message) == <<GREEN, "U+2705 ">> \o message \o <<NC>>
print_warning(message) == <<YELLOW, "U+26A0 U+FE0F  ">> \o message \o <<NC>>
print_error(message)   == <<RED, "U+274C ">> \o message \o <<NC>>

(***************************************************************************)
(* Python values: None, truth of a value, dict.get.                        *)
(* An optional text is [some |-> FALSE] for None, else the text in val.    *)
(***************************************************************************)
None       == [some |-> FALSE, val |-> <<>>]
Some(text) == [some |-> TRUE, val |-> text]

\* Mutant: "is not None" in place of the truth test.
TruthyNotNone(x) == x.some

\* bool(x) of an optional text: None and the empty string are false.
Truthy(x) == x.some /\ x.val # <<>>

\* Mutant: os.environ.get(key, 'unknown').
EnvironGetDefault(e, key) == IF key \in DOMAIN e THEN Some(e[key]) ELSE Some(<<"unknown">>)

\* os.environ.get(key): the value, or None when the name is not set.
EnvironGet(e, key) == IF key \in DOMAIN e THEN Some(e[key]) ELSE None

get_pm_context(e) ==
  [current_project |-> EnvironGet(e, "PM_CURRENT_PROJECT"),
   config_path     |-> EnvironGet(e, "PM_CONFIG_PATH"),
   pm_version      |-> EnvironGet(e, "PM_VERSION")]

(***************************************************************************)
(* json.loads on a tokenised text.  A JSON value is a record               *)
(* [t, s, items]: t is its type, s the content of a string or the digits   *)
(* of a number, items the elements of an array or the [k, v] members of an *)
(* object in insertion order.                                              *)
(***************************************************************************)
Unquote ==
  ( "\"name\"" :> "name" ) @@ ( "\"path\"" :> "path" ) @@
  ( "\"Foo\"" :> "Foo" ) @@ ( "\"/x\"" :> "/x" ) @@ ( "\"\"" :> "" )
StrLits == DOMAIN Unquote
NumLits == {"1", "42"}
Literals == ( "null" :> "None" ) @@ ( "true" :> "True" ) @@ ( "false" :> "False" )
Whitespace == {" "}

JStr(s)       == [t |-> "str", s |-> s, items |-> <<>>]
JNum(s)       == [t |-> "num", s |-> s, items |-> <<>>]
JLit(s)       == [t |-> "lit", s |-> s, items |-> <<>>]
JArr(items)   == [t |-> "arr", s |-> "", items |-> items]
JObj(members) == [t |-> "obj", s |-> "", items |-> members]

ParseFail     == [ok |-> FALSE, v |-> JLit("None"), n |-> 0]
ParseOk(v, n) == [ok |-> TRUE, v |-> v, n |-> n]

\* d[k] = v on a dict: a repeated key keeps its place and takes the new value.
DictSet(members, k, v) ==
  IF \E i \in 1..Len(members) : members[i].k = k
  THEN [i \in 1..Len(members) |->
          IF members[i].k = k THEN [k |-> k, v |-> v] ELSE members[i]]
  ELSE Append(members, [k |-> k, v |-> v])

HasKey(members, k) == \E i \in 1..Len(members) : members[i].k = k

\* d.get(k, default)
DictGet(members, k, default) ==
  IF HasKey(members, k)
  THEN members[CHOOSE i \in 1..Len(members) : members[i].k = k].v
  ELSE default

RECURSIVE ParseValue(_, _), ParseElems(_, _, _), ParseMembers(_, _, _)
ParseValue(t, i) ==
  IF i > Len(t) THEN ParseFail
  ELSE IF t[i] \in StrLits THEN ParseOk(JStr(Unquote[t[i]]), i + 1)
  ELSE IF t[i] \in NumLits THEN ParseOk(JNum(t[i]), i + 1)
  ELSE IF t[i] \in DOMAIN Literals THEN ParseOk(JLit(Literals[t[i]]), i + 1)
  ELSE IF t[i] = "["
    THEN IF i < Len(t) /\ t[i + 1] = "]" THEN ParseOk(JArr(<<>>), i + 2)
         ELSE ParseElems(t, i + 1, <<>>)
  ELSE IF t[i] = "{"
    THEN IF i < Len(t) /\ t[i + 1] = "}" THEN ParseOk(JObj(<<>>), i + 2)
         ELSE ParseMembers(t, i + 1, <<>>)
  ELSE ParseFail

ParseElems(t, i, acc) ==
  LET e == ParseValue(t, i) IN
  IF ~e.ok \/ e.n > Len(t) THEN ParseFail
  ELSE IF t[e.n] = "," THEN ParseElems(t, e.n + 1, Append(acc, e.v))
  ELSE IF t[e.n] = "]" THEN ParseOk(JArr(Append(acc, e.v)), e.n + 1)
  ELSE ParseFail

ParseMembers(t, i, acc) ==
  IF i + 1 > Len(t) \/ t[i] \notin StrLits \/ t[i + 1] # ":" THEN ParseFail
  ELSE LET e == ParseValue(t, i + 2) IN
       IF ~e.ok \/ e.n > Len(t) THEN ParseFail
       ELSE IF t[e.n] = ","
         THEN ParseMembers(t, e.n + 1, DictSet(acc, Unquote[t[i]], e.v))
       ELSE IF t[e.n] = "}"
         THEN ParseOk(JObj(DictSet(acc, Unquote[t[i]], e.v)), e.n + 1)
       ELSE ParseFail

\* json.loads(s): one value, with nothing but whitespace around it.
JsonLoads(text) ==
  LET t == SelectSeq(text, LAMBDA tok : tok \notin Whitespace)
      r == ParseValue(t, 1)
  IN  IF r.ok /\ r.n = Len(t) + 1 THEN r ELSE ParseFail

\* repr(v) and str(v) of a parsed value, as the f-string renders it.
RECURSIVE Repr(_)
Repr(v) ==
  IF v.t = "str" THEN <<"'" \o v.s \o "'">>
  ELSE IF v.t = "arr"
    THEN <<"[">> \o JoinWith([i \in 1..Len(v.items) |-> Repr(v.items[i])], ", ")
         \o <<"]">>
  ELSE IF v.t = "obj"
    THEN <<"{">>
         \o JoinWith([i \in 1..Len(v.items) |->
                        <<"'" \o v.items[i].k \o "'", ": ">> \o Repr(v.items[i].v)],
                     ", ")
         \o <<"}">>
  ELSE <<v.s>>

Format(v) ==
  IF v.t = "str" THEN (IF v.s = "" THEN <<>> ELSE <<v.s>>) ELSE Repr(v)

(***************************************************************************)
(* Names, imports and exceptions.                                          *)
(***************************************************************************)
\* The names bound at module level once main.py has loaded.
Globals ==
  {"os", "sys", "json", "datetime", "Colors", "print_info", "print_success",
   "print_warning", "print_error", "get_pm_context", "run_command",
   "check_command", "config_command", "show_help", "main"}

\* The modules the statements at the top of main.py have loaded.
SysModules == {"os", "sys", "json", "datetime"}

\* Every name check_command binds is local to it in the whole body:
\* context, project_data, the three imported modules and the handler's e.
CheckLocals == {"context", "json", "project_data", "datetime", "os", "e"}

\* Reading a name inside a function: a local that is not bound yet raises.
LoadName(name, fnLocals, boundNames) ==
  IF name \in fnLocals
  THEN (IF name \in boundNames THEN "local" ELSE "UnboundLocalError")
  ELSE (IF name \in Globals THEN "global" ELSE "NameError")

\* import m inside a function: a loaded module is taken from sys.modules.
ImportModule(m) == IF m \in SysModules THEN "None" ELSE "ModuleNotFoundError"

\* str(e) of the exception an import raises.
ImportErrorText(m) == <<"No module named '" \o m \o "'">>

\* Mutants: "except ValueError:" and "except json.JSONDecodeError:".
ProjectHandlerValueError == "ValueError"
ProjectHandlerDecodeError == "JSONDecodeError"

\* The except clauses of check_command.
ProjectHandler == "bare"          \* except:
ModulesHandler == "ImportError"   \* except ImportError as e:

\* Does an except clause catch an exception?
Catches(clause, e) ==
  \/ clause = "bare"
  \/ clause = e
  \/ clause = "ImportError" /\ e = "ModuleNotFoundError"
  \/ clause = "ValueError" /\ e = "JSONDecodeError"

(***************************************************************************)
(* str.split() and datetime.isoformat().                                   *)
(***************************************************************************)
RECURSIVE Split(_, _, _)
\* Split(text, word, acc): the maximal runs of tokens that are not whitespace.
Split(text, word, acc) ==
  IF text = <<>> THEN (IF word = <<>> THEN acc ELSE Append(acc, word))
  ELSE IF Head(text) \in Whitespace
    THEN Split(Tail(text), <<>>, IF word = <<>> THEN acc ELSE Append(acc, word))
  ELSE Split(Tail(text), Append(word, Head(text)), acc)

\* sys.version.split()[0]
VersionNumber(ver) == Split(ver, <<>>, <<>>)[1]

Pad6(n) ==
  (IF n < 10 THEN "00000" ELSE IF n < 100 THEN "0000" ELSE IF n < 1000 THEN "000"
   ELSE IF n < 10000 THEN "00" ELSE IF n < 100000 THEN "0" ELSE "") \o ToString(n)

\* The fraction is written only when the microsecond is not zero.
Isoformat(dt) ==
  <<dt.date, "T", dt.time>> \o (IF dt.us = 0 THEN <<>> ELSE <<".", Pad6(dt.us)>>)

(***************************************************************************)
(* The lines each behaviour prints.                                        *)
(***************************************************************************)
run_command_lines(e, interp) ==
  LET context == get_pm_context(e) IN
     << print_success(<<"test-python Extension - Deploy Command">>),
        print_info(<<"Executing Python extension functionality...">>) >>
  \o (IF Truthy(context.current_project)
      THEN <<print_info(<<"Current PM project: ">> \o context.current_project.val)>>
      ELSE <<>>)
  \o (IF Truthy(context.config_path)
      THEN <<print_info(<<"PM config: ">> \o context.config_path.val)>>
      ELSE <<>>)
  \o << print(<<"U+1F40D Python extension is running successfully!">>),
        print(<<"U+1F4E6 Working with Python packages and virtual environments">>),
        print(<<"U+1F680 Rich ecosystem and powerful libraries available">>),
        print(<<"U+26A1 High-level programming with great readability">>),
        print_info(<<"Checking Python environment...">>),
        print_info(<<"Python version: ">> \o VersionNumber(interp.version)),
        print_info(<<"Python executable: ", interp.executable>>) >>

check_banner_lines(interp) ==
  << print_success(<<"test-python Extension - Check Command">>),
     print_info(<<"Extension Type: Python">>),
     print_info(<<"Version: 1.0.0">>),
     print_info(<<"Status: Active and ready">>),
     print_info(<<"Python: ">> \o interp.version),
     print_info(<<"Platform: ", interp.platform>>) >>

\* A block's outcome: the lines it printed, the exception it leaves
\* ("None" when it ends normally) and the local names it bound.
Outcome(lines, raised, names) == [lines |-> lines, raised |-> raised, names |-> names]

\* The body of the first try of check_command: json.loads and the two prints.
project_try_body(text, boundNames) ==
  IF LoadName("json", CheckLocals, boundNames) \in {"UnboundLocalError", "NameError"}
  THEN Outcome(<<>>, LoadName("json", CheckLocals, boundNames), {})
  ELSE LET parsed == JsonLoads(text) IN
       IF ~parsed.ok THEN Outcome(<<>>, "JSONDecodeError", {})
       ELSE IF parsed.v.t # "obj"
         THEN Outcome(<<>>, "AttributeError", {"project_data"})
       ELSE Outcome(
              << print_info(<<"Project: ">>
                   \o Format(DictGet(parsed.v.items, "name", JStr("Unknown")))),
                 print_info(<<"Path: ">>
                   \o Format(DictGet(parsed.v.items, "path", JStr("Unknown")))) >>,
              "None", {"project_data"})

\* Mutant: the handler also prints a Path line.
project_except_lines_path(text) ==
  <<print_info(<<"Project: ">> \o text), print_info(<<"Path: ", "Unknown">>)>>

\* The handler of the first try: the raw value.
project_except_lines(text) == <<print_info(<<"Project: ">> \o text)>>

\* try: ... except: ...
project_try(text, boundNames) ==
  LET body == project_try_body(text, boundNames) IN
  IF body.raised = "None" THEN body
  ELSE IF Catches(ProjectHandler, body.raised)
    THEN Outcome(body.lines \o project_except_lines(text), "None", body.names)
  ELSE body

\* The "Check if in PM context" part of check_command.
check_context(e, boundNames) ==
  LET context == get_pm_context(e) IN
  IF Truthy(context.current_project)
  THEN LET t == project_try(context.current_project.val, boundNames \cup {"context"}) IN
       Outcome(<<print_success(<<"Running in PM project context">>)>> \o t.lines,
               t.raised, t.names \cup {"context"})
  ELSE Outcome(<<print_warning(<<"Not running in PM project context">>)>>,
               "None", {"context"})

\* Mutant: the success line after each import.
check_modules_each ==
  Outcome([i \in 1..3 |-> print_success(<<"Core Python modules available">>)],
          "None", {"json", "datetime", "os"})

CheckedModules == <<"json", "datetime", "os">>

\* The "Check available modules" part: the imports in order, up to the first
\* that raises.
check_modules ==
  LET failed == {i \in 1..Len(CheckedModules) : ImportModule(CheckedModules[i]) # "None"}
  IN  IF failed = {}
      THEN Outcome(<<print_success(<<"Core Python modules available">>)>>, "None",
                   {CheckedModules[i] : i \in 1..Len(CheckedModules)})
      ELSE LET f == CHOOSE i \in failed : \A j \in failed : i <= j
               err == ImportModule(CheckedModules[f])
               names == {CheckedModules[i] : i \in 1..(f - 1)}
           IN  IF Catches(ModulesHandler, err)
               THEN Outcome(<<print_error(<<"Module import error: ">>
                                \o ImportErrorText(CheckedModules[f]))>>,
                            "None", names)
               ELSE Outcome(<<>>, err, names)

\* Mutant: config also shows the third field of the context.
config_command_lines_version(e, interp, clock) ==
     << print_success(<<"test-python Extension - Config Command">>),
        print_info(<<"Python extension configuration">>),
        print_info(<<"Current configuration:">>),
        print(<<"  Extension: ", "test-python">>),
        print(<<"  Version: ", "1.0.0">>),
        print(<<"  Python: ">> \o VersionNumber(interp.version)),
        print(<<"  Timestamp: ">> \o Isoformat(clock)) >>
  \o (IF Truthy(get_pm_context(e).current_project)
      THEN <<print(<<"  PM Project: ">> \o get_pm_context(e).current_project.val)>>
      ELSE <<>>)
  \o (IF Truthy(get_pm_context(e).config_path)
      THEN <<print(<<"  PM Config: ">> \o get_pm_context(e).config_path.val)>>
      ELSE <<>>)
  \o (IF Truthy(get_pm_context(e).pm_version)
      THEN <<print(<<"  PM Version: ">> \o get_pm_context(e).pm_version.val)>>
      ELSE <<>>)

config_command_lines(e, interp, clock) ==
  LET config == [extension |-> <<"test-python">>,
                 version |-> <<"1.0.0">>,
                 python_version |-> VersionNumber(interp.version),
                 timestamp |-> Isoformat(clock),
                 environment |-> e]
      context == get_pm_context(e)
  IN << print_success(<<"test-python Extension - Config Command">>),
        print_info(<<"Python extension configuration">>),
        print_info(<<"Current configuration:">>),
        print(<<"  Extension: ">> \o config.extension),
        print(<<"  Version: ">> \o config.version),
        print(<<"  Python: ">> \o config.python_version),
        print(<<"  Timestamp: ">> \o config.timestamp) >>
  \o (IF Truthy(context.current_project)
      THEN <<print(<<"  PM Project: ">> \o context.current_project.val)>>
      ELSE <<>>)
  \o (IF Truthy(context.config_path)
      THEN <<print(<<"  PM Config: ">> \o context.config_path.val)>>
      ELSE <<>>)

show_help_lines ==
  << print(<<"Usage: pm test-python [COMMAND]">>),
     print(<<>>),
     print(<<"Available Commands:">>),
     print(<<"  deploy     Deploy using Python extension">>),
     print(<<"  check      Check Python extension health">>),
     print(<<"  config     Configure Python extension">>),
     print(<<>>),
     print(<<"PM Environment Variables:">>),
     print(<<"  PM_CURRENT_PROJECT - Current project context">>),
     print(<<"  PM_CONFIG_PATH     - PM configuration path">>),
     print(<<"  PM_VERSION         - PM version">>),
     print(<<>>),
     print(<<"Extension: test-python">>),
     print(<<"Description: Test Python extension for local installation testing">>),
     print(<<"Author: testuser">>),
     print(<<"Homepage: https://github.com/testuser/test-python">>) >>

\* str.lower() on the arguments of the model.
Lower(a) == IF a = "Deploy" THEN "deploy" ELSE a

\* Mutant: the command compared without regard to case.
SelectIgnoreCase(args) ==
  IF Len(args) < 2 THEN "show_help"
  ELSE IF Lower(args[2]) = "deploy" THEN "run_command"
  ELSE IF Lower(args[2]) = "check" THEN "check_command"
  ELSE IF Lower(args[2]) = "config" THEN "config_command"
  ELSE "show_help"

\* Mutant: the command taken from sys.argv[-1].
SelectLastArg(args) ==
  IF Len(args) < 2 THEN "show_help"
  ELSE IF args[Len(args)] = "deploy" THEN "run_command"
  ELSE IF args[Len(args)] = "check" THEN "check_command"
  ELSE IF args[Len(args)] = "config" THEN "config_command"
  ELSE "show_help"

\* main's branch: the behaviour the argument list selects.
Select(args) ==
  IF Len(args) < 2 THEN "show_help"
  ELSE IF args[2] = "deploy" THEN "run_command"
  ELSE IF args[2] = "check" THEN "check_command"
  ELSE IF args[2] = "config" THEN "config_command"
  ELSE "show_help"

(***************************************************************************)
(* The inputs of a run.                                                    *)
(***************************************************************************)
ProgName  == "main.py"
FirstArgs == {"deploy", "check", "config", "", "--help", "Deploy", "dep", "checks", "help"}
ExtraArgs == {"check", "-v"}

ArgvSet ==
  {<<ProgName>>}
  \cup {<<ProgName, a>> \o x : a \in FirstArgs, x \in SeqsUpTo(ExtraArgs, MaxExtraArgs)}

FooAtX == <<"{", "\"name\"", ":", "\"Foo\"", ",", "\"path\"", ":", "\"/x\"", "}">>
PathOnly == <<"{", "\"path\"", ":", "\"/x\"", "}">>

\* Values of PM_CURRENT_PROJECT: the empty string, plain text, JSON objects,
\* JSON values that are no objects, malformed JSON.
ProjectSamples ==
  { <<>>, <<"hello">>, <<" ">>, <<"hello", " ", "world">>,
    FooAtX, PathOnly,
    <<"{", "\"name\"", ":", "\"Foo\"", "}">>,
    <<" ", "{", " ", "\"name\"", ":", " ", "\"Foo\"", "}", " ">>,
    <<"{", "\"name\"", ":", "1", ",", "\"name\"", ":", "\"Foo\"", "}">>,
    <<"{", "\"name\"", ":", "null", ",", "\"path\"", ":", "[", "\"/x\"", ",", "1", "]", "}">>,
    <<"{", "\"name\"", ":", "{", "\"path\"", ":", "\"\"", "}", "}">>,
    <<"{", "}">>, <<"[", "1", "]">>, <<"[", "]">>, <<"\"Foo\"">>, <<"42">>,
    <<"null">>, <<"true">>,
    <<"{", "\"name\"", ":", "\"Foo\"">>,
    <<"{", "\"name\"", ":", "\"Foo\"", ",", "}">>,
    <<"{", "\"name\"", "\"Foo\"", "}">>,
    <<"{", "hello", ":", "1", "}">>,
    <<"[", "1", ",", "]">>,
    FooAtX \o <<"hello">> }

GenTokens == {"{", "}", "\"name\"", ":", "1"}

ProjectTexts == ProjectSamples \cup SeqsUpTo(GenTokens, MaxLen)
ConfigTexts  == {<<>>, <<"/etc/pm/config.yml">>}
PmVersions   == {<<"2.0">>}
HomeTexts    == {<<"/root">>}

Optional(S) == {None} \cup {Some(x) : x \in S}

\* os.environ with the given optional values: an unset name is no key.
EnvNames == {"PM_CURRENT_PROJECT", "PM_CONFIG_PATH", "PM_VERSION", "HOME"}
EnvOf(project, config, pmver, home) ==
  LET sel == ("PM_CURRENT_PROJECT" :> project) @@ ("PM_CONFIG_PATH" :> config)
             @@ ("PM_VERSION" :> pmver) @@ ("HOME" :> home)
  IN  [k \in {n \in EnvNames : sel[n].some} |-> sel[k].val]

Interpreters ==
  { [version |-> <<"3.11.6", " ", "(main,", " ", "Nov", " ", "29", " ", "2023)">>,
     platform |-> "linux", executable |-> "/usr/local/bin/python3"] }

Clocks ==
  { [date |-> "2026-11-05", time |-> "09:16:00", us |-> 0],
    [date |-> "2026-11-05", time |-> "09:16:00", us |-> 1500] }

(***************************************************************************)
(* The state machine.  A run starts at the call of main() at the bottom of *)
(* main.py, after the module has loaded.                                   *)
(***************************************************************************)
Start(R) ==
  /\ pc = [r \in R |-> "main"]
  /\ out = [r \in R |-> <<>>]
  /\ bound = [r \in R |-> {}]
  /\ exc = [r \in R |-> "None"]
  /\ status = [r \in R |-> -1]
  /\ ran = [r \in R |-> <<>>]

\* One invocation, any inputs.
Init ==
  /\ Start({1})
  /\ argv \in [{1} -> ArgvSet]
  /\ \E p \in Optional(ProjectTexts), c \in Optional(ConfigTexts),
        v \in Optional(PmVersions) :
       environ = [r \in {1} |-> EnvOf(p, c, v, Some(<<"/root">>))]
  /\ sys \in [{1} -> Interpreters]
  /\ now \in [{1} -> Clocks]

\* main(): the branch on sys.argv.
Main(r) ==
  /\ r \in Runs
  /\ pc[r] = "main"
  /\ pc' = [pc EXCEPT ![r] = Select(argv[r])]
  /\ UNCHANGED <<argv, environ, sys, now, out, bound, exc, status, ran>>

\* A behaviour ends: back in main, which returns, or the exception goes on.
After(r, o) ==
  /\ out' = [out EXCEPT ![r] = @ \o o.lines]
  /\ exc' = [exc EXCEPT ![r] = o.raised]
  /\ pc' = [pc EXCEPT ![r] = IF o.raised = "None" THEN "return" ELSE "raise"]

RunCommand(r) ==
  /\ r \in Runs
  /\ pc[r] = "run_command"
  /\ After(r, Outcome(run_command_lines(environ[r], sys[r]), "None", {}))
  /\ ran' = [ran EXCEPT ![r] = Append(@, "run_command")]
  /\ UNCHANGED <<argv, environ, sys, now, bound, status>>

\* check_command, first part: the banner and the interpreter's facts.
CheckBanner(r) ==
  /\ r \in Runs
  /\ pc[r] = "check_command"
  /\ out' = [out EXCEPT ![r] = @ \o check_banner_lines(sys[r])]
  /\ ran' = [ran EXCEPT ![r] = Append(@, "check_command")]
  /\ pc' = [pc EXCEPT ![r] = "check_context"]
  /\ UNCHANGED <<argv, environ, sys, now, bound, exc, status>>

\* check_command, second part: the PM context.
CheckContext(r) ==
  /\ r \in Runs
  /\ pc[r] = "check_context"
  /\ LET o == check_context(environ[r], bound[r]) IN
       /\ out' = [out EXCEPT ![r] = @ \o o.lines]
       /\ bound' = [bound EXCEPT ![r] = @ \cup o.names]
       /\ exc' = [exc EXCEPT ![r] = o.raised]
       /\ pc' = [pc EXCEPT ![r] = IF o.raised = "None" THEN "check_modules" ELSE "raise"]
  /\ UNCHANGED <<argv, environ, sys, now, status, ran>>

\* check_command, third part: the local imports.
CheckModules(r) ==
  /\ r \in Runs
  /\ pc[r] = "check_modules"
  /\ After(r, check_modules)
  /\ bound' = [bound EXCEPT ![r] = @ \cup check_modules.names]
  /\ UNCHANGED <<argv, environ, sys, now, status, ran>>

ConfigCommand(r) ==
  /\ r \in Runs
  /\ pc[r] = "config_command"
  /\ After(r, Outcome(config_command_lines(environ[r], sys[r], now[r]), "None", {}))
  /\ ran' = [ran EXCEPT ![r] = Append(@, "config_command")]
  /\ UNCHANGED <<argv, environ, sys, now, bound, status>>

ShowHelp(r) ==
  /\ r \in Runs
  /\ pc[r] = "show_help"
  /\ After(r, Outcome(show_help_lines, "None", {}))
  /\ ran' = [ran EXCEPT ![r] = Append(@, "show_help")]
  /\ UNCHANGED <<argv, environ, sys, now, bound, status>>

\* The interpreter ends: status 0 after main returns, 1 after an exception
\* nothing caught.
Exit(r) ==
  /\ r \in Runs
  /\ pc[r] \in {"return", "raise"}
  /\ status' = [status EXCEPT ![r] = IF pc[r] = "return" THEN 0 ELSE 1]
  /\ pc' = [pc EXCEPT ![r] = "exited"]
  /\ UNCHANGED <<argv, environ, sys, now, out, bound, exc, ran>>

Next ==
  \E r \in AllRuns :
    \/ Main(r)
    \/ RunCommand(r)
    \/ CheckBanner(r)
    \/ CheckContext(r)
    \/ CheckModules(r)
    \/ ConfigCommand(r)
    \/ ShowHelp(r)
    \/ Exit(r)

Spec == Init /\ [][Next]_vars

TypeOK ==
  /\ \A r \in Runs :
       /\ pc[r] \in {"main", "run_command", "check_command", "check_context",
                     "check_modules", "config_command", "show_help", "return",
                     "raise", "exited"}
       /\ status[r] \in {-1, 0, 1}
       /\ bound[r] \subseteq CheckLocals

(***************************************************************************)
(* Two invocations side by side, for the claims that compare runs: the     *)
(* same arguments, interpreter and clock, any two environments.            *)
(***************************************************************************)
PairArgv ==
  {<<ProgName>>, <<ProgName, "deploy">>, <<ProgName, "check">>,
   <<ProgName, "config">>, <<ProgName, "--help">>}
PairEnvs ==
  {EnvOf(p, c, v, h) :
     p \in Optional({<<>>, <<"hello">>, FooAtX}),
     c \in Optional({<<"/etc/pm/config.yml">>}),
     v \in Optional(PmVersions), h \in Optional(HomeTexts)}

InitPair ==
  /\ Start({1, 2})
  /\ \E a \in PairArgv : argv = [r \in {1, 2} |-> a]
  /\ environ \in [{1, 2} -> PairEnvs]
  /\ \E i \in Interpreters : sys = [r \in {1, 2} |-> i]
  /\ \E c \in Clocks : now = [r \in {1, 2} |-> c]

SpecPair == InitPair /\ [][Next]_vars

\* A process runs its straight-line code to the end: no step waits.
FairSpec == Init /\ [][Next]_vars /\ WF_vars(Next)

(***************************************************************************)
(* Vocabulary of the properties.                                           *)
(***************************************************************************)
Commands == {"deploy", "check", "config"}

\* The first argument is one of the three commands.
Recognized(r) == Len(argv[r]) >= 2 /\ argv[r][2] \in Commands
IsCommand(r, c) == Len(argv[r]) >= 2 /\ argv[r][2] = c

\* main has returned (or the process has ended).
Finished(r) == pc[r] \in {"return", "exited"}
\* check_command is past its PM-context part.
PastContext(r) == pc[r] \in {"check_modules", "return", "exited"}

Project(r) == EnvironGet(environ[r], "PM_CURRENT_PROJECT")
Config(r)  == EnvironGet(environ[r], "PM_CONFIG_PATH")

StartsWith(line, prefix) ==
  Len(line) >= Len(prefix) /\ SubSeq(line, 1, Len(prefix)) = prefix

\* The positions of the lines of run r that start with the given pieces.
LinesWith(r, prefix) == {i \in 1..Len(out[r]) : StartsWith(out[r][i], prefix)}
Printed(r, line) == \E i \in 1..Len(out[r]) : out[r][i] = line

InfoLabel(label) == <<BLUE, "U+2139 U+FE0F  ", label>>
ProjectLines(r)  == LinesWith(r, InfoLabel("Project: "))
PathLines(r)     == LinesWith(r, InfoLabel("Path: "))
ErrorLines(r)    == LinesWith(r, <<RED>>)

ContextSuccess == <<GREEN, "U+2705 ", "Running in PM project context", NC>>
ContextWarning == <<YELLOW, "U+26A0 U+FE0F  ", "Not running in PM project context", NC>>
ModulesSuccess == <<GREEN, "U+2705 ", "Core Python modules available", NC>>
RawProjectLine(r) == InfoLabel("Project: ") \o Project(r).val \o <<NC>>

\* Some piece of some printed line of run r is one of the given tokens.
Shows(r, tokens) ==
  \E i \in 1..Len(out[r]) : \E j \in 1..Len(out[r][i]) : out[r][i][j] \in tokens
Tokens(text) == {text[i] : i \in 1..Len(text)}

(***************************************************************************)
(* C1.  When the first argument is missing or is anything but "deploy",    *)
(* "check" or "config", the run prints the help text of show_help, all of  *)
(* it and nothing else, whatever the environment holds.                    *)
(***************************************************************************)
C1_UnrecognizedPrintsHelp ==
  \A r \in Runs :
    ~Recognized(r) =>
      /\ out[r] \in {<<>>, show_help_lines}
      /\ pc[r] # "raise"
      /\ Finished(r) => out[r] = show_help_lines

C1_Witness ==
  \E r \in Runs :
    /\ pc[r] = "exited" /\ IsCommand(r, "Deploy")
    /\ Truthy(Project(r)) /\ Truthy(Config(r))
    /\ Len(out[r]) = 16 /\ out[r][1] = <<"Usage: pm test-python [COMMAND]">>

(***************************************************************************)
(* C2.  In check, a PM_CURRENT_PROJECT that parses as a JSON object is     *)
(* shown by its name and path, "Unknown" standing in for an absent key,    *)
(* and the raw string is not printed as the project.                       *)
(***************************************************************************)
C2_ParsedProjectShown ==
  \A r \in Runs :
    ( /\ IsCommand(r, "check") /\ PastContext(r) /\ Truthy(Project(r))
      /\ JsonLoads(Project(r).val).ok
      /\ JsonLoads(Project(r).val).v.t = "obj" ) =>
        LET obj == JsonLoads(Project(r).val).v.items IN
        /\ Printed(r, InfoLabel("Project: ")
                        \o Format(DictGet(obj, "name", JStr("Unknown"))) \o <<NC>>)
        /\ Printed(r, InfoLabel("Path: ")
                        \o Format(DictGet(obj, "path", JStr("Unknown"))) \o <<NC>>)
        /\ ~Printed(r, RawProjectLine(r))

(***************************************************************************)
(* C3.  In check, a non-empty PM_CURRENT_PROJECT that does not parse as    *)
(* JSON is printed verbatim as the one Project line; there is no Path      *)
(* line and no error line, nothing propagates, and the module step         *)
(* follows.  Plain text and malformed JSON end the same way.               *)
(***************************************************************************)
C3_UnparsableFallsBackToRaw ==
  \A r \in Runs :
    ( /\ IsCommand(r, "check") /\ Truthy(Project(r))
      /\ ~JsonLoads(Project(r).val).ok ) =>
        /\ pc[r] # "raise" /\ exc[r] = "None"
        /\ PastContext(r) =>
             /\ Cardinality(ProjectLines(r)) = 1
             /\ Printed(r, RawProjectLine(r))
             /\ PathLines(r) = {}
             /\ ErrorLines(r) = {}
        /\ Finished(r) => out[r][Len(out[r])] = ModulesSuccess

C3_Witness ==
  \E r \in Runs :
    /\ pc[r] = "exited" /\ IsCommand(r, "check")
    /\ Project(r) = Some(<<"{", "\"name\"", ":", "\"Foo\"", ",", "}">>)
    /\ Printed(r, RawProjectLine(r))
    /\ out[r][Len(out[r])] = ModulesSuccess

(***************************************************************************)
(* C4.  With PM_CURRENT_PROJECT unset, deploy prints no "Current PM        *)
(* project" line, config prints no "PM Project" line, and check prints the *)
(* warning line, not the success line, and no Project or Path line.        *)
(***************************************************************************)
C4_UnsetProject ==
  \A r \in Runs :
    "PM_CURRENT_PROJECT" \notin DOMAIN environ[r] =>
      /\ LinesWith(r, InfoLabel("Current PM project: ")) = {}
      /\ LinesWith(r, <<"  PM Project: ">>) = {}
      /\ ~Printed(r, ContextSuccess)
      /\ ProjectLines(r) = {} /\ PathLines(r) = {}
      /\ (IsCommand(r, "check") /\ PastContext(r)) => Printed(r, ContextWarning)

C4_Witness ==
  \E r \in Runs :
    /\ pc[r] = "exited" /\ IsCommand(r, "check")
    /\ "PM_CURRENT_PROJECT" \notin DOMAIN environ[r]
    /\ "PM_CONFIG_PATH" \in DOMAIN environ[r]
    /\ Printed(r, ContextWarning)

(***************************************************************************)
(* C5.  Every invocation ends, and ends with exit status 0: no exception   *)
(* leaves main, whatever the arguments and the three PM variables are.     *)
(***************************************************************************)
C5_AlwaysExitsZero ==
  /\ [](\A r \in Runs :
          /\ pc[r] # "raise" /\ exc[r] = "None"
          /\ status[r] \in {-1, 0}
          /\ (pc[r] = "exited") <=> (status[r] = 0))
  /\ <>(\A r \in Runs : pc[r] = "exited" /\ status[r] = 0)

C5_Witness ==
  \E r \in Runs :
    /\ pc[r] = "exited" /\ status[r] = 0 /\ IsCommand(r, "check")
    /\ Truthy(Project(r)) /\ ~JsonLoads(Project(r).val).ok
    /\ "PM_VERSION" \notin DOMAIN environ[r]

(***************************************************************************)
(* C6.  main runs exactly one of the four behaviours, once, and returns;   *)
(* deploy, check and config run exactly when the first argument is that    *)
(* word, letter for letter, and later arguments decide nothing.            *)
(***************************************************************************)
C6_ExactlyOneBehaviour ==
  \A r \in Runs :
    /\ Len(ran[r]) <= 1
    /\ pc[r] \notin {"main", "run_command", "check_command", "config_command",
                    "show_help"} =>
         /\ Len(ran[r]) = 1
         /\ (ran[r][1] = "run_command") <=> IsCommand(r, "deploy")
         /\ (ran[r][1] = "check_command") <=> IsCommand(r, "check")
         /\ (ran[r][1] = "config_command") <=> IsCommand(r, "config")
         /\ (ran[r][1] = "show_help") <=> ~Recognized(r)

C6_Witness ==
  \E r \in Runs :
    /\ pc[r] = "exited" /\ Len(argv[r]) = 3
    /\ argv[r][2] = "help" /\ argv[r][3] = "check"
    /\ ran[r] = <<"show_help">>

(***************************************************************************)
(* C7.  Whatever the PM-context part of check printed, the module step     *)
(* comes last and prints one line: the success line when no import         *)
(* raises, else an error line carrying the exception's text; check then    *)
(* returns normally.                                                       *)
(***************************************************************************)
ImportsRaise == \E i \in 1..Len(CheckedModules) : ImportModule(CheckedModules[i]) # "None"
ModulesLines(r) ==
  {i \in 1..Len(out[r]) :
     \/ out[r][i] = ModulesSuccess
     \/ StartsWith(out[r][i], <<RED, "U+274C ", "Module import error: ">>)}

C7_ModuleStepLast ==
  \A r \in Runs :
    IsCommand(r, "check") =>
      /\ pc[r] \in {"main", "check_command", "check_context", "check_modules"}
           => ModulesLines(r) = {}
      /\ pc[r] # "raise" /\ exc[r] = "None"
      /\ Finished(r) =>
           /\ ModulesLines(r) = {Len(out[r])}
           /\ ~ImportsRaise => out[r][Len(out[r])] = ModulesSuccess
           /\ ImportsRaise => out[r][Len(out[r])] # ModulesSuccess

C7_Witness ==
  \E r \in Runs :
    /\ pc[r] = "return" /\ IsCommand(r, "check")
    /\ Project(r) = Some(FooAtX)
    /\ Len(out[r]) = 9 /\ out[r][9] = ModulesSuccess
    /\ bound[r] = {"context", "json", "datetime", "os"}

(***************************************************************************)
(* C8.  Output depends on the environment through PM_CURRENT_PROJECT and   *)
(* PM_CONFIG_PATH alone: two runs with the same arguments, interpreter and *)
(* clock whose environments agree on these two variables have printed the  *)
(* same lines at the same point, whatever PM_VERSION and the other         *)
(* variables hold; no value of PM_VERSION or of another variable is shown. *)
(***************************************************************************)
C8_OnlyTwoVariablesShow ==
  /\ \A r1 \in Runs, r2 \in Runs :
       ( /\ pc[r1] = pc[r2]
         /\ argv[r1] = argv[r2] /\ sys[r1] = sys[r2] /\ now[r1] = now[r2]
         /\ Project(r1) = Project(r2) /\ Config(r1) = Config(r2) )
       => out[r1] = out[r2]
  /\ \A r \in Runs :
       ~Shows(r, UNION {Tokens(environ[r][k]) :
                          k \in DOMAIN environ[r]
                                \ {"PM_CURRENT_PROJECT", "PM_CONFIG_PATH"}})

C8_Witness ==
  /\ Runs = {1, 2}
  /\ pc[1] = "exited" /\ pc[2] = "exited" /\ IsCommand(1, "config")
  /\ Project(1) = Some(FooAtX) /\ Project(2) = Some(FooAtX)
  /\ Config(1) = Config(2)
  /\ DOMAIN environ[1] \ DOMAIN environ[2] = {"PM_VERSION", "HOME"}
  /\ out[1] = out[2] /\ Len(out[1]) = 8

(***************************************************************************)
(* C9.  A PM variable set to the empty string counts as unset: with an     *)
(* empty PM_CURRENT_PROJECT deploy and config print no project line and    *)
(* check prints the warning, not the success line nor a Project line;      *)
(* with an empty PM_CONFIG_PATH deploy and config print no config-path     *)
(* line.  In deploy and config each of the two lines appears exactly when  *)
(* its own variable is non-empty, and check never prints PM_CONFIG_PATH.   *)
(***************************************************************************)
DeployProjectLines(r) == LinesWith(r, InfoLabel("Current PM project: "))
DeployConfigLines(r)  == LinesWith(r, InfoLabel("PM config: "))
ConfigProjectLines(r) == LinesWith(r, <<"  PM Project: ">>)
ConfigConfigLines(r)  == LinesWith(r, <<"  PM Config: ">>)

C9_EmptyIsUnset ==
  \A r \in Runs :
    /\ Project(r) = Some(<<>>) =>
         /\ DeployProjectLines(r) = {} /\ ConfigProjectLines(r) = {}
         /\ ~Printed(r, ContextSuccess) /\ ProjectLines(r) = {}
         /\ (IsCommand(r, "check") /\ PastContext(r)) => Printed(r, ContextWarning)
    /\ Config(r) = Some(<<>>) =>
         DeployConfigLines(r) = {} /\ ConfigConfigLines(r) = {}
    /\ (IsCommand(r, "deploy") /\ Finished(r)) =>
         /\ (DeployProjectLines(r) # {}) <=> Truthy(Project(r))
         /\ (DeployConfigLines(r) # {}) <=> Truthy(Config(r))
    /\ (IsCommand(r, "config") /\ Finished(r)) =>
         /\ (ConfigProjectLines(r) # {}) <=> Truthy(Project(r))
         /\ (ConfigConfigLines(r) # {}) <=> Truthy(Config(r))
    /\ IsCommand(r, "check") =>
         /\ DeployConfigLines(r) = {} /\ ConfigConfigLines(r) = {}
         /\ Config(r).some => ~Shows(r, Tokens(Config(r).val))

C9_Witness ==
  \E r \in Runs :
    /\ pc[r] = "exited" /\ IsCommand(r, "deploy")
    /\ Project(r) = Some(<<>>) /\ Truthy(Config(r))
    /\ DeployProjectLines(r) = {} /\ DeployConfigLines(r) = {3}

(***************************************************************************)
(* C10.  In check with a non-empty PM_CURRENT_PROJECT, be it JSON, JSON    *)
(* that is no object, or no JSON at all, the success line is followed by   *)
(* exactly one Project line and at most one Path line, and a Path line is  *)
(* there only when the Project line shows the parsed object's name: never  *)
(* a parsed Project line together with the raw one.                        *)
(***************************************************************************)
C10_OneProjectLine ==
  \A r \in Runs :
    (IsCommand(r, "check") /\ Truthy(Project(r)) /\ PastContext(r)) =>
      \E i \in 1..Len(out[r]) :
        /\ LinesWith(r, ContextSuccess) = {i}
        /\ ProjectLines(r) = {i + 1}
        /\ PathLines(r) \subseteq {i + 2}
        /\ ~Printed(r, ContextWarning)
        /\ PathLines(r) # {} =>
             /\ JsonLoads(Project(r).val).ok
             /\ JsonLoads(Project(r).val).v.t = "obj"
             /\ out[r][i + 1] =
                  InfoLabel("Project: ")
                  \o Format(DictGet(JsonLoads(Project(r).val).v.items, "name",
                                    JStr("Unknown")))
                  \o <<NC>>

C10_Witness ==
  \E r \in Runs :
    /\ pc[r] = "exited" /\ IsCommand(r, "check")
    /\ Project(r) = Some(<<"[", "1", "]">>)
    /\ ProjectLines(r) = {8} /\ PathLines(r) = {}
    /\ out[r][8] = RawProjectLine(r)

====
